---- MODULE Spec2Model ----
(***************************************************************************)
(* State-machine model of lib/pomodoro.py: the debounced buttons of        *)
(* Express, and the idle loop, work session, interval runner, pause loop   *)
(* and cancel flash of Pomodoro.                                           *)
(*                                                                         *)
(* Numbers.  Every time is an integer count of sixtieths of a second, the  *)
(* ticks of the clock: 0.25 s is 15.  A duration is a Python number, an    *)
(* int of any size or a float with its rounding: the number of minutes a   *)
(* setter is given, the number of seconds it stores (duration * 60), the   *)
(* number of seconds interval() gives each light (duration / 10).  Where   *)
(* the code compares a time that has passed with led_duration, the ticks   *)
(* that have passed are compared with that number of seconds exactly.      *)
(*                                                                         *)
(* Time.  Every call of monotonic() is a read of its own: it returns the    *)
(* value of the read before it or the next clock step.  A guard and the    *)
(* assignment that follows it are two reads, and one step of the model     *)
(* takes as many reads as its code makes.  sleep() and play_tone() move    *)
(* the clock by their whole length.                                        *)
(***************************************************************************)
EXTENDS Integers, Sequences, FiniteSets

VARIABLES
    now,             \* monotonic(), as last read
    pixels,          \* cpx.pixels, index 0..9 -> colour
    last_button_a,   \* Express.last_button_a
    last_button_b,   \* Express.last_button_b
    _work_duration,  \* Pomodoro._work_duration
    _short_break,    \* Pomodoro._short_break
    _long_break,     \* Pomodoro._long_break
    schedule,        \* Pomodoro.schedule
    start_led,       \* Pomodoro.start_led
    stop_led,        \* Pomodoro.stop_led
    idle_led,        \* Pomodoro.idle_led
    idle_time,       \* Pomodoro.idle_time
    led_state,       \* Pomodoro.led_state, the snapshot pause() takes
    pc,              \* position of the single thread of control
    period,          \* work_session: index in schedule of the current entry
    color,           \* interval: parameter color
    led_start,       \* interval: local led_start
    led_duration,    \* interval: local led_duration
    led_current,     \* interval: local led_current
    pre_pause,       \* interval: local pre_pause
    pause_time,      \* pause: local pause_time
    flash,           \* interval: cancel loop, cycles already finished
    \* ---- history, read by the properties only ----
    press,           \* result of the polls made by the last step, and the
                     \* time each of them compared with the window
    prev_true,       \* per channel, the time recorded by the last poll that
                     \* returned true
    ran,             \* intervals invoked in the current session, in order
    handled,         \* what the current iteration of interval's loop handled
    at_pause,        \* remaining segment time and led_current at pause entry
    cur,             \* times and counts of the interval running or last run
    call             \* the last access of a duration property, and the
                     \* value last given to each of the three

prog == <<pixels, last_button_a, last_button_b, _work_duration, _short_break,
          _long_break, schedule, start_led, stop_led, idle_led, idle_time,
          led_state, pc, period, color, led_start, led_duration, led_current,
          pre_pause, pause_time, flash>>
hist == <<press, prev_true, ran, handled, at_pause, cur, call>>
vars == <<now, prog, hist>>

----------------------------------------------------------------------------
(* Bounds of the model *)

MaxTime == 70           \* no step reads the clock after this time
MaxQuietTime == 749     \* the same, for the runs without presses
MaxPausedTime == 135    \* the same, for the runs with an early pause
MaxLiveTime == 700      \* the same, for the runs that are followed to the
                        \* end of their session
ClockStep == 5          \* resolution of the clock, in sixtieths of a second
StartBy == 25           \* in the runs that press A once to begin a session,
                        \* the latest time A is pressed
PauseBy == 45           \* in the runs with an early pause, the latest time
                        \* A is pressed to enter a pause
ResumeBy == 70          \* in those runs, the latest time a button is
                        \* pressed inside pause()

\* monotonic(), called when the read before it returned t: the same clock
\* step or the next one
Later(t, max) == {t, t + ClockStep} \cap (0 .. max)

\* the values n calls of monotonic() in a row can return, the read before
\* them having returned t
RECURSIVE ReadsFrom(_, _, _)
ReadsFrom(t, n, max) ==
    IF n = 0 THEN {<<>>}
    ELSE UNION {{<<r>> \o rest : rest \in ReadsFrom(r, n - 1, max)} :
                  r \in Later(t, max)}

\* the reads of one step: a step taken at loc is given a value for each of
\* the n calls of monotonic() in its code, and a call the step does not
\* reach is given the value of the read before it
Reads(loc, n, max) == IF pc = loc THEN ReadsFrom(now, n, max) ELSE {}
Unread(rd, k) == rd[k] = IF k = 1 THEN now ELSE rd[k - 1]

\* what cpx.button_a, cpx.button_b and cpx.switch read
Raw == BOOLEAN

----------------------------------------------------------------------------
(* Constants of the program *)

sensitivity == 15       \* 0.25 s
idle_update == 30       \* 0.5 s
blink_update == 18      \* 0.3 s
flash_on == 12          \* sleep(0.2)
flash_off == 6          \* sleep(0.1)
flash_cycles == 2       \* range(2)
n_pixels == 10
tone_frequency == 1720
tone_length == 6        \* 0.1 s

Off == <<0, 0, 0>>
Red == <<10, 0, 0>>
IdleColor == <<0, 5, 0>>

Ring == 0 .. (n_pixels - 1)

\* a step round the ring the wrong way
following_led(led) == (led + 1) % n_pixels

\* (led - 1) % 10: the light that comes after led in both animations
previous_led(led) == (led - 1) % n_pixels
AllPixels(c) == [i \in Ring |-> c]

default_schedule == <<"w", "sb", "w", "lb", "w", "sb", "w">>

intervals ==
    [w  |-> [attr |-> "_work_duration", color |-> <<0, 0, 5>>],
     sb |-> [attr |-> "_short_break",   color |-> <<0, 5, 0>>],
     lb |-> [attr |-> "_long_break",    color |-> <<4, 1, 3>>]]

----------------------------------------------------------------------------
(* Express *)

\* single_press without the window: the raw state of the button
single_press_raw(raw, last, t) == raw

\* single_press with the window's end taken as outside the window
single_press_inclusive(raw, last, t) == raw /\ (t - last) >= sensitivity

\* single_press_a / single_press_b: the value the property returns
single_press(raw, last, t) == raw /\ (t - last) > sensitivity

\* single_press that forgets to record the accepted press
stamp_never(raw, last, t, stored) == last

\* single_press that records every poll with the button down
stamp_when_down(raw, last, t, stored) == IF raw THEN stored ELSE last

\* the timestamp the property leaves behind: t is the read the window is
\* compared with, stored the read made for the assignment
stamp(raw, last, t, stored) ==
    IF single_press(raw, last, t) THEN stored ELSE last

\* the time a poll compared with the window, when it made no such read
NoRead == 0 - 1

NoPoll == [a |-> "none", b |-> "none", ta |-> NoRead, tb |-> NoRead]
NoPause == [rem |-> 0, cur |-> 0, entered |-> 0,
            display |-> [i \in 0 .. 9 |-> <<0, 0, 0>>], toggled |-> 0]
NoInterval == [begun |-> 0, ended |-> 0, paused |-> 0, offs |-> 0,
               reds |-> 0, sw |-> "unread", tones |-> <<>>,
               woke |-> "none"]
Polled(r) == IF r THEN "true" ELSE "false"

----------------------------------------------------------------------------
(* Python numbers, as the duration properties see them *)

(***************************************************************************)
(* A value given to a duration property is a Python int or a Python float. *)
(* An int has no bound: it is a sign (-1, 0 or 1) and a magnitude, a       *)
(* sequence mag of limbs of 24 bits, the lowest first, times 2^(24 low);   *)
(* the lowest and the highest limb of mag are not 0.                       *)
(* A float is an IEEE binary64: a sign (-1, 0                              *)
(* or 1) and, when it is not zero, a significand of up to 53 bits in two   *)
(* limbs, hi * 2^27 + lo, scaled by 2^e.  A normal float has               *)
(* 2^25 <= hi < 2^26 and MinExp <= e <= MaxExp, a subnormal one e = MinExp *)
(* and hi < 2^25; infinity is PyInf.  The operations the program makes,    *)
(* * 60, / 60 and / 10, round once, to nearest, ties to even, overflow to  *)
(* infinity and lose precision gradually below the normal range, as the    *)
(* float type does.  (nan is not modelled.)  An int over 60 or over 10 is  *)
(* a true division: its result is the float nearest to the quotient, and   *)
(* an OverflowError when that is beyond the largest float.                 *)
(***************************************************************************)
Limb == 2^27
IntLimb == 2^24
MinExp == 0 - 1022 - 52
MaxExp == 1023 - 52

\* the magnitude of an int 0 <= v < 2^31
limbs(v) ==
    IF v = 0 THEN <<>>
    ELSE IF v < IntLimb THEN <<v>>
    ELSE <<v % IntLimb, v \div IntLimb>>

\* n limbs of 0
RECURSIVE zeros(_)
zeros(n) == IF n = 0 THEN <<>> ELSE <<0>> \o zeros(n - 1)

\* a magnitude without its high limbs that are 0
RECURSIVE trimmed(_)
trimmed(mag) ==
    IF mag = <<>> \/ mag[Len(mag)] # 0 THEN mag
    ELSE trimmed(SubSeq(mag, 1, Len(mag) - 1))

\* a magnitude without its low limbs that are 0, counted into low
RECURSIVE lowered(_, _)
lowered(mag, low) ==
    IF mag # <<>> /\ Head(mag) = 0 THEN lowered(Tail(mag), low + 1)
    ELSE [mag |-> mag, low |-> low]

\* the int sign * mag * 2^(24 low)
PyWhole(sign, mag, low) ==
    LET n == lowered(trimmed(mag), low)
    IN IF n.mag = <<>>
       THEN [t |-> "int", sign |-> 0, mag |-> <<>>, low |-> 0]
       ELSE [t |-> "int", sign |-> sign, mag |-> n.mag, low |-> n.low]

\* the int v, -2^31 < v < 2^31
PyInt(v) ==
    PyWhole(IF v > 0 THEN 1 ELSE 0 - 1, limbs(IF v < 0 THEN 0 - v ELSE v), 0)

\* what int / 60 and int / 10 raise when the quotient is beyond the floats
OverflowError == [t |-> "OverflowError"]
PyFloat(sign, hi, lo, e) ==
    [t |-> "float", sign |-> sign, hi |-> hi, lo |-> lo, e |-> e]
PyInf == PyFloat(1, 0, 0, MaxExp + 1)
PyZero == PyFloat(0, 0, 0, 0)

\* the float that follows (hi, lo, e) in magnitude
next_up(hi, lo, e) ==
    IF lo + 1 < Limb THEN PyFloat(1, hi, lo + 1, e)
    ELSE IF hi + 1 < 2^26 THEN PyFloat(1, hi + 1, 0, e)
    ELSE IF e < MaxExp THEN PyFloat(1, 2^25, 0, e + 1)
    ELSE PyInf

\* What is left of an exact value below the last bit kept: "none", "less"
\* than half of that bit, "half" of it, or "more".  The bits dropped are
\* worth low against a half, with rest below them:
below(low, half, rest) ==
    IF low > half THEN "more"
    ELSE IF low = half THEN (IF rest = "none" THEN "half" ELSE "more")
    ELSE IF low = 0 /\ rest = "none" THEN "none"
    ELSE "less"

\* the significand (hi, lo) at exponent e with rest below it, brought up to
\* exponent MinExp by dropping its sh = MinExp - e low bits
denormal(hi, lo, e, rest) ==
    LET sh == MinExp - e
    IN IF sh <= 0 THEN [hi |-> hi, lo |-> lo, e |-> e, rest |-> rest]
       ELSE IF sh < 27
       THEN [hi |-> hi \div 2^sh,
             lo |-> lo \div 2^sh + (hi % 2^sh) * 2^(27 - sh),
             e |-> MinExp,
             rest |-> below(lo % 2^sh, 2^(sh - 1), rest)]
       ELSE IF sh = 27
       THEN [hi |-> 0, lo |-> hi, e |-> MinExp,
             rest |-> below(lo, 2^26, rest)]
       ELSE IF sh < 54
       THEN [hi |-> 0, lo |-> hi \div 2^(sh - 27), e |-> MinExp,
             rest |-> below(hi % 2^(sh - 27), 2^(sh - 28),
                            IF lo = 0 THEN rest ELSE "less")]
       ELSE [hi |-> 0, lo |-> 0, e |-> MinExp, rest |-> "less"]

\* the one rounding of a result: (hi, lo) normalised at exponent e, with
\* rest below its last bit
rounded(hi, lo, e, rest) ==
    LET d == denormal(hi, lo, e, rest)
        up == d.rest = "more" \/ (d.rest = "half" /\ d.lo % 2 = 1)
    IN IF d.e > MaxExp THEN PyInf
       ELSE IF up THEN next_up(d.hi, d.lo, d.e)
       ELSE IF d.hi = 0 /\ d.lo = 0 THEN PyZero
       ELSE PyFloat(1, d.hi, d.lo, d.e)

\* a subnormal significand shifted up to 2^25 <= hi, the exponent lowered
RECURSIVE normal(_, _, _)
normal(hi, lo, e) ==
    IF hi >= 2^25 THEN [hi |-> hi, lo |-> lo, e |-> e]
    ELSE normal(2 * hi + lo \div 2^26, (2 * lo) % Limb, e - 1)

\* float * 60 of a finite x > 0: the significand times 15, and the rounding
times_60_finite(x) ==
    LET n == normal(x.hi, x.lo, x.e)
        lo15 == n.lo * 15
        plo == lo15 % Limb
        phi == n.hi * 15 + lo15 \div Limb
        s == IF phi >= 2^29 THEN 4 ELSE 3
        rem == plo % 2^s
        half == 2^(s - 1)
        qlo == plo \div 2^s + (phi % 2^s) * 2^(27 - s)
        qhi == phi \div 2^s
        rest == IF rem = 0 THEN "none" ELSE IF rem < half THEN "less"
                ELSE IF rem = half THEN "half" ELSE "more"
    IN rounded(qhi, qlo, n.e + s + 2, rest)

\* float * 60, x > 0
float_times_60(x) == IF x = PyInf THEN PyInf ELSE times_60_finite(x)

\* the number of bits of a limb
RECURSIVE bit_length(_)
bit_length(n) == IF n = 0 THEN 0 ELSE 1 + bit_length(n \div 2)

\* m without its factors 2, and their number
RECURSIVE odd_part(_)
odd_part(m) == IF m % 2 = 0 THEN odd_part(m \div 2) ELSE m
RECURSIVE twos(_)
twos(m) == IF m % 2 = 0 THEN 1 + twos(m \div 2) ELSE 0

\* float / m of a finite x > 0, for m = 60, 10 or 11: the significand over
\* the odd part of m (15, 5 or 11) by long division, and the rounding
\* (twice the remainder is even and the divisor is odd: never half)
over_finite(x, m) ==
    LET n == normal(x.hi, x.lo, x.e)
        odd == odd_part(m)
        bl == bit_length(odd) - 1
        k == IF n.hi >= odd * 2^(25 - bl) THEN bl ELSE bl + 1
        nlo == (n.lo * 2^k) % Limb
        nhi == n.hi * 2^k + (n.lo * 2^k) \div Limb
        qhi == nhi \div odd
        r1 == nhi % odd
        qlo == (r1 * Limb + nlo) \div odd
        r == (r1 * Limb + nlo) % odd
        rest == IF r = 0 THEN "none" ELSE IF 2 * r < odd THEN "less"
                ELSE "more"
    IN rounded(qhi, qlo, n.e - k - twos(m), rest)

\* float / m, x >= 0
float_over(x, m) ==
    IF x = PyInf \/ x = PyZero THEN x ELSE over_finite(x, m)

\* a magnitude times m < 2^6, from the lowest limb up
RECURSIVE mag_times(_, _, _)
mag_times(mag, m, carry) ==
    IF mag = <<>> THEN limbs(carry)
    ELSE LET p == Head(mag) * m + carry
         IN <<p % IntLimb>> \o mag_times(Tail(mag), m, p \div IntLimb)

\* quotient q and remainder r of a magnitude by m < 2^6, from the highest
\* limb down
RECURSIVE mag_divmod(_, _)
mag_divmod(mag, m) ==
    IF mag = <<>> THEN [q |-> <<>>, r |-> 0]
    ELSE LET high == mag_divmod(Tail(mag), m)
             part == high.r * IntLimb + Head(mag)
         IN [q |-> <<part \div m>> \o high.q, r |-> part % m]

\* The leading 53 bits of the magnitude mag > 0 scaled by 2^scale, as a
\* float's significand (hi, lo) and exponent e, with what is left below
\* them; more says that the exact value has something below mag itself.
leading(mag, scale, more) ==
    LET n == Len(mag)
        at(i) == IF i >= 1 THEN mag[i] ELSE 0
        bl == bit_length(mag[n])
        k == 24 - bl
        up(x, y) == (x % 2^bl) * 2^k + y \div 2^bl
        t == up(at(n), at(n - 1))
        a == up(at(n - 1), at(n - 2))
        b == up(at(n - 2), at(n - 3))
        c == (at(n - 3) % 2^bl) * 2^k
        under == more \/ c # 0 \/ \E i \in 1 .. n - 4 : mag[i] # 0
    IN [hi |-> t * 4 + a \div 2^22,
        lo |-> (a % 2^22) * 32 + b \div 2^19,
        e |-> 24 * (n - 1) + bl - 53 + scale,
        rest |-> below(b % 2^19, 2^18, IF under THEN "less" ELSE "none")]

\* int / m of an int s # 0, for m < 2^6: 2^72 |s| over m by long
\* division (dm), its leading bits (l), rounded to the nearest float (f);
\* each result is the one element of a set, a value for the next step
int_over(s, m) ==
    LET fs == {rounded(l.hi, l.lo, l.e, l.rest) :
                 l \in {leading(trimmed(dm.q), 24 * s.low - 72, dm.r # 0) :
                          dm \in {mag_divmod(<<0, 0, 0>> \o s.mag, m)}}}
        f == CHOOSE v \in fs : TRUE
    IN IF f = PyInf THEN OverflowError ELSE [f EXCEPT !.sign = s.sign]

\* duration * 60: exact on an int, rounded on a float
times_60(d) ==
    IF d.t = "int"
    THEN PyWhole(d.sign, mag_times(d.mag, 60, 0), d.low)
    ELSE float_times_60(d)

\* a getter that hands out the stored seconds
over_60_forgotten(s) == s

\* x / m for x >= 0: always a float.  An int is divided as an int and the
\* quotient rounded once; a float is divided and rounded.
over(x, m) ==
    IF x.t = "float" THEN float_over(x, m)
    ELSE IF x.sign = 0 THEN PyZero
    ELSE int_over(x, m)

\* seconds / 60 in the getters
over_60(s) == over(s, 60)

\* the value of a magnitude below 2^31
RECURSIVE mag_value(_)
mag_value(mag) ==
    IF mag = <<>> THEN 0 ELSE Head(mag) + IntLimb * mag_value(Tail(mag))

\* more ticks than any clock read of the model
Ages == 2147483647

\* the whole part of mag * 2^e, or Ages when that is 2^31 or more
whole_part(mag, e) ==
    LET n == Len(mag)
        bits == 24 * (n - 1) + bit_length(mag[n])
        k == 0 - e
        rest == SubSeq(mag, k \div 24 + 1, n)
        b == k % 24
    IN IF mag = <<>> \/ bits + e <= 0 THEN 0
       ELSE IF bits + e > 31 THEN Ages
       ELSE IF e >= 0 THEN mag_value(mag) * 2^e
       ELSE Head(rest) \div 2^b + mag_value(Tail(rest)) * 2^(24 - b)

\* the whole part of 60 x for a finite float x > 0, or Ages: 15 times the
\* significand in two limbs (hi, lo), at exponent e + 2, less the k bits
\* below the point
float_ticks(x) ==
    LET lo15 == x.lo * 15
        lo == lo15 % Limb
        hi == x.hi * 15 + lo15 \div Limb
        k == 0 - (x.e + 2)
    IN IF k >= 58 THEN 0
       ELSE IF k >= 27 THEN hi \div 2^(k - 27)
       ELSE IF k <= 0 \/ hi >= 2^(4 + k) THEN Ages
       ELSE hi * 2^(27 - k) + lo \div 2^k

\* The ticks that x seconds hold, x >= 0 a float or an int: the whole part
\* of 60 x, which n ticks exceed exactly when n / 60 s exceeds x s.
ticks(x) ==
    IF x = PyInf THEN Ages
    ELSE IF x.sign = 0 THEN 0
    ELSE IF x.t = "int"
    THEN whole_part(mag_times(x.mag, 60, 0), 24 * x.low)
    ELSE float_ticks(x)

\* a setter that lets zero through
rejects_negative(d) == d.sign < 0

\* if duration <= 0: raise ValueError
rejects(d) == d.sign <= 0

\* x and y are the same float, or finite neighbours
Close(x, y) ==
    \/ x = y
    \/ /\ PyInf \notin {x, y}
       /\ \/ next_up(x.hi, x.lo, x.e) = y
          \/ next_up(y.hi, y.lo, y.e) = x

\* work_session taking the work duration for every kind of interval
getattr_work(name) == _work_duration

\* getattr(self, duration) in work_session
getattr(name) ==
    CASE name = "_work_duration" -> _work_duration
      [] name = "_short_break"   -> _short_break
      [] name = "_long_break"    -> _long_break

----------------------------------------------------------------------------
(* Configurations the runs start from *)

\* a duration of k seconds as the setters take it, in minutes: k / 60
Seconds(k) == over(PyInt(k), 60)

\* durations of one, two and three seconds: a tenth, two tenths and three
\* tenths of a second for each light
UsbDownChoices == {TRUE, FALSE}
WorkChoices == {Seconds(1)}
ShortChoices == {Seconds(2)}
LongChoices == {Seconds(3)}
ScheduleChoices == {<<"w", "sb">>}
QuietChoices ==
    {[work |-> Seconds(10), short |-> Seconds(1), long |-> Seconds(2),
      schedule |-> <<"w">>]}

\* The runs to the end of a session: schedules of no, one, two and three
\* entries with durations of one and two seconds, and durations whose
\* seconds are not a finite float: 1e307 and inf (times 60 they are inf),
\* the int 2^1024; one of them in a property that the schedule does not
\* use.
LiveChoices ==
    {[work |-> Seconds(1), short |-> Seconds(2), long |-> Seconds(1),
      schedule |-> <<"w", "sb", "lb">>],
     [work |-> Seconds(2), short |-> Seconds(1), long |-> PyInf,
      schedule |-> <<"w">>],
     [work |-> Seconds(1), short |-> Seconds(1), long |-> Seconds(1),
      schedule |-> <<>>],
     [work |-> PyFloat(1, 59728871, 78410803, 967), short |-> Seconds(1),
      long |-> Seconds(1), schedule |-> <<"w">>],
     [work |-> PyFloat(1, 59728871, 78410803, 967), short |-> Seconds(1),
      long |-> Seconds(1), schedule |-> <<"sb", "w">>],
     [work |-> Seconds(1), short |-> Seconds(1), long |-> PyInf,
      schedule |-> <<"lb">>],
     [work |-> PyWhole(1, <<2^16>>, 42), short |-> Seconds(1),
      long |-> Seconds(1), schedule |-> <<"w">>]}

\* no property accessed yet; wd, sb and lb are the values configured
NoCall(wd, sb, lb) ==
    [op |-> "none", arg |-> PyInt(0), result |-> "none",
     given |-> [w |-> wd, sb |-> sb, lb |-> lb]]

\* The module-level Express() and a Pomodoro(usb_down) with its schedule,
\* the display dark: everything but the three durations.
Constructed(usb, sched) ==
    /\ now = 0
    /\ pixels = AllPixels(Off)
    /\ last_button_a = 0 /\ last_button_b = 0
    /\ schedule = sched
    /\ start_led = IF usb THEN 4 ELSE 9
    /\ stop_led = IF usb THEN 5 ELSE 0
    /\ idle_led = 0
    /\ idle_time = 0
    /\ led_state = AllPixels(Off)
    /\ pc = "idle"
    /\ period = 0
    /\ color = Off
    /\ led_start = 0 /\ led_duration = PyZero /\ led_current = 0
    /\ pre_pause = 0 /\ pause_time = 0
    /\ flash = 0
    /\ press = NoPoll
    /\ prev_true = [a |-> -1, b |-> -1]
    /\ ran = <<>>
    /\ handled = {}
    /\ at_pause = NoPause
    /\ cur = NoInterval

\* The state in which start() is entered: the objects constructed and the
\* configuration made through the setters, given wd, sb and lb minutes,
\* and the schedule attribute.  Each setter stores duration * 60.
InitWith(usb, wd, sb, lb, sched) ==
    /\ Constructed(usb, sched)
    /\ _work_duration = times_60(wd)
    /\ _short_break = times_60(sb)
    /\ _long_break = times_60(lb)
    /\ call = NoCall(wd, sb, lb)

Init ==
    \E usb \in {TRUE}, wd \in WorkChoices, sb \in ShortChoices,
       lb \in LongChoices, sched \in ScheduleChoices :
        InitWith(usb, wd, sb, lb, sched)

----------------------------------------------------------------------------
(* The duration properties *)

\* what an access of a duration property leaves alone
configured == <<now, pixels, last_button_a, last_button_b, schedule,
                start_led, stop_led, idle_led, idle_time, led_state, pc,
                period, color, led_start, led_duration, led_current,
                pre_pause, pause_time, flash, press, prev_true, ran, handled,
                at_pause, cur>>

Raised(op, d) == [call EXCEPT !.op = op, !.arg = d, !.result = "ValueError"]

\* pomodoro.work_duration = d
work_duration_setter(d) ==
    /\ IF rejects(d)
       THEN /\ call' = Raised("set_work", d)
            /\ UNCHANGED _work_duration
       ELSE /\ _work_duration' = times_60(d)
            /\ call' = [op |-> "set_work", arg |-> d, result |-> "ok",
                        given |-> [call.given EXCEPT !.w = d]]
    /\ UNCHANGED <<_short_break, _long_break, configured>>

\* pomodoro.short_break = d
short_break_setter(d) ==
    /\ IF rejects(d)
       THEN /\ call' = Raised("set_short", d)
            /\ UNCHANGED _short_break
       ELSE /\ _short_break' = times_60(d)
            /\ call' = [op |-> "set_short", arg |-> d, result |-> "ok",
                        given |-> [call.given EXCEPT !.sb = d]]
    /\ UNCHANGED <<_work_duration, _long_break, configured>>

\* pomodoro.long_break = d
long_break_setter(d) ==
    /\ IF rejects(d)
       THEN /\ call' = Raised("set_long", d)
            /\ UNCHANGED _long_break
       ELSE /\ _long_break' = times_60(d)
            /\ call' = [op |-> "set_long", arg |-> d, result |-> "ok",
                        given |-> [call.given EXCEPT !.lb = d]]
    /\ UNCHANGED <<_work_duration, _short_break, configured>>

\* reading pomodoro.work_duration
work_duration_getter ==
    /\ call' = [call EXCEPT !.op = "get_work", !.arg = PyInt(0),
                            !.result = over_60(_work_duration)]
    /\ UNCHANGED <<_work_duration, _short_break, _long_break, configured>>

\* reading pomodoro.short_break
short_break_getter ==
    /\ call' = [call EXCEPT !.op = "get_short", !.arg = PyInt(0),
                            !.result = over_60(_short_break)]
    /\ UNCHANGED <<_work_duration, _short_break, _long_break, configured>>

\* reading pomodoro.long_break
long_break_getter ==
    /\ call' = [call EXCEPT !.op = "get_long", !.arg = PyInt(0),
                            !.result = over_60(_long_break)]
    /\ UNCHANGED <<_work_duration, _short_break, _long_break, configured>>

\* The values the properties are given: ints and floats, positive, zero and
\* negative.  Each float is written with the limbs of its binary64.
DurationChoices ==
    {PyInt(45), PyInt(1), PyInt(0), PyInt(-1),
     PyWhole(1, <<1, 0, 32>>, 0),            \* 2^53 + 1
     PyWhole(1, <<2^16>>, 42),               \* 2^1024
     PyFloat(1, 33554432, 0, -53),           \* 0.5
     PyFloat(1, 53687091, 26843546, -56),    \* 0.1
     PyFloat(1, 64424509, 59055800, -58),    \* 0.03
     PyFloat(1, 36238786, 75161928, -52),    \* 1.08
     PyFloat(1, 59728871, 78410803, 967),    \* 1e307
     PyFloat(1, 0, 1, -1074),                \* 5e-324
     PyFloat(0, 0, 0, 0),                    \* 0.0
     PyFloat(-1, 33554432, 0, -53)}          \* -0.5

\* Pomodoro(): __init__ gives the three properties 45, 10 and 20
InitConfig ==
    /\ Constructed(TRUE, default_schedule)
    /\ _work_duration = times_60(PyInt(45))
    /\ _short_break = times_60(PyInt(10))
    /\ _long_break = times_60(PyInt(20))
    /\ call = NoCall(PyInt(45), PyInt(10), PyInt(20))

\* the object between its construction and the call of start()
NextConfig ==
    \/ \E d \in DurationChoices : work_duration_setter(d)
    \/ \E d \in DurationChoices : short_break_setter(d)
    \/ \E d \in DurationChoices : long_break_setter(d)
    \/ work_duration_getter
    \/ short_break_getter
    \/ long_break_getter

SpecConfig == InitConfig /\ [][NextConfig]_vars

----------------------------------------------------------------------------
(* Pomodoro.start and Pomodoro.idle_animation *)

\* idle_animation leaving the old light on
idle_pixels_trail(px, led, due) ==
    IF due THEN [px EXCEPT ![previous_led(led)] = IdleColor] ELSE px

\* idle_animation: the display after one call
idle_pixels(px, led, due) ==
    IF due
    THEN [[px EXCEPT ![led] = Off] EXCEPT ![previous_led(led)] = IdleColor]
    ELSE px

\* start() entering work_session whatever the poll of A returned
after_idle_poll_always(res) == "session"

\* where start()'s loop goes after its poll of A: into work_session on a
\* press, round again otherwise
after_idle_poll(res) == IF res THEN "session" ELSE "idle"

\* one iteration of start()'s loop: idle_animation(), then the poll of A.
\* Its reads of the clock: the guard of idle_animation, the new idle_time,
\* the guard of single_press_a, the new last_button_a.
Idle(rd, raw_a) ==
    /\ pc = "idle"
    /\ UNCHANGED call
    /\ LET due == (rd[1] - idle_time) > idle_update
           res == single_press(raw_a, last_button_a, rd[3])
       IN /\ due \/ Unread(rd, 2)
          /\ raw_a \/ Unread(rd, 3)
          /\ res \/ Unread(rd, 4)
          /\ now' = rd[4]
          /\ pixels' = idle_pixels(pixels, idle_led, due)
          /\ idle_led' = IF due THEN previous_led(idle_led) ELSE idle_led
          /\ idle_time' = IF due THEN rd[2] ELSE idle_time
          /\ last_button_a' = stamp(raw_a, last_button_a, rd[3], rd[4])
          /\ pc' = after_idle_poll(res)
          /\ period' = IF after_idle_poll(res) = "session" THEN 1 ELSE period
          /\ press' = [NoPoll EXCEPT !.a = Polled(res),
                                     !.ta = IF raw_a THEN rd[3] ELSE NoRead]
          /\ prev_true' = IF res THEN [prev_true EXCEPT !.a = rd[4]]
                                 ELSE prev_true
          /\ ran' = IF res THEN <<>> ELSE ran
    /\ UNCHANGED <<last_button_b, _work_duration, _short_break, _long_break,
                   schedule, start_led, stop_led, led_state, color, led_start,
                   led_duration, led_current, pre_pause, pause_time, flash,
                   handled, at_pause, cur>>

----------------------------------------------------------------------------
(* Pomodoro.work_session *)

\* interval() splitting the duration over one light too many
light_time_off_by_one(duration) == over(duration, n_pixels + 1)

\* led_duration = duration / 10: a float, or the OverflowError of an int
\* beyond the floats
light_time(duration) == over(duration, n_pixels)

\* the next entry of the schedule: resolve it and enter interval(), up to
\* the top of its loop; t is the clock as read for led_start.  When the
\* division of line 138 raises, the OverflowError leaves interval(),
\* work_session() and start(): the program has ended, the display filled.
NextInterval(t) ==
    /\ pc = "session"
    /\ UNCHANGED call
    /\ period <= Len(schedule)
    /\ now' = t
    /\ LET kind == schedule[period]
           duration == getattr(intervals[kind].attr)
       IN /\ color' = intervals[kind].color
          /\ pixels' = AllPixels(intervals[kind].color)
          /\ led_start' = t
          /\ IF light_time(duration) = OverflowError
             THEN /\ pc' = "raised"
                  /\ UNCHANGED <<led_duration, led_current>>
             ELSE /\ pc' = "run"
                  /\ led_duration' = light_time(duration)
                  /\ led_current' = start_led
          /\ ran' = Append(ran, [kind |-> kind, duration |-> duration,
                                 color |-> intervals[kind].color,
                                 result |-> "running"])
          /\ cur' = [NoInterval EXCEPT !.begun = t]
    /\ handled' = {}
    /\ press' = NoPoll
    /\ UNCHANGED <<last_button_a, last_button_b, _work_duration,
                   _short_break, _long_break, schedule, start_led, stop_led,
                   idle_led, idle_time, led_state, period, pre_pause,
                   pause_time, flash, prev_true, at_pause>>

\* the schedule is exhausted: work_session returns to start()'s loop
SessionReturn ==
    /\ pc = "session"
    /\ UNCHANGED call
    /\ period > Len(schedule)
    /\ pc' = "idle"
    /\ period' = 0
    /\ press' = NoPoll
    /\ UNCHANGED <<now, pixels, last_button_a, last_button_b,
                   _work_duration, _short_break, _long_break, schedule,
                   start_led, stop_led, idle_led, idle_time, led_state, color,
                   led_start, led_duration, led_current, pre_pause,
                   pause_time, flash, prev_true, ran, handled, at_pause,
                   cur>>

----------------------------------------------------------------------------
(* Pomodoro.interval *)

\* the last entry of ran with its result filled in
Finished(result) == [ran EXCEPT ![Len(ran)] = [@ EXCEPT !.result = result]]

\* cpx.play_tone(1720, 0.1) when the switch is set: the tones of a completion
completion_tones(sw) ==
    IF sw THEN << <<tone_frequency, tone_length>> >> ELSE <<>>

\* interval() without the return at the last light
after_countdown_no_return(done) == "pollA"

\* where the loop goes after the light-off check: out of interval() when the
\* light at stop_led went off, on to the poll of A otherwise
after_countdown(done) == IF done THEN "session" ELSE "pollA"

\* where the loop goes after the poll of B: into the cancel flash on a press,
\* back to the top otherwise
after_poll_b(res) == IF res THEN "flash_on" ELSE "run"

\* a resume that forgets the time the pause took
resumed_start_unmoved(start, t, pre) == start

\* a resume that restarts the light segment
resumed_start_reset(start, t, pre) == t

\* led_start after a pause: moved forward by the time since pre_pause
resumed_start(start, t, pre) == start + (t - pre)

\* led_start = monotonic() moved out of the if: the segment begins again
\* at every iteration
segment_start_every_time(due, t, start) == t

\* led_start after the light-off check: the segment that follows a
\* light-off begins at t, the clock as read for the assignment
segment_start(due, t, start) == IF due THEN t ELSE start

\* (monotonic() - led_start) > led_duration, for elapsed ticks and a
\* limit in seconds: no time is longer than inf
overdue(elapsed, limit) == limit # PyInf /\ elapsed > ticks(limit)

\* top of the loop: the light-off check, and the return on completion
\* (play_tone holds the program for the length of the tone).  Its reads of
\* the clock: the guard of the check, the new led_start.
IntervalCountdown(rd, sw) ==
    /\ pc = "run"
    /\ UNCHANGED call
    /\ LET t == rd[1]
           due == overdue(t - led_start, led_duration)
           done == due /\ led_current = stop_led
       IN /\ (due /\ ~done) \/ Unread(rd, 2)
          /\ pixels' = IF due THEN [pixels EXCEPT ![led_current] = Off]
                              ELSE pixels
          /\ handled' = IF due THEN {"tick"} ELSE {}
          /\ IF done
             THEN /\ now' = IF sw THEN t + tone_length ELSE t
                  /\ pc' = after_countdown(TRUE)
                  /\ period' = period + 1
                  /\ color' = Off
                  /\ led_start' = 0 /\ led_duration' = PyZero
                  /\ led_current' = 0
                  /\ ran' = Finished("completed")
                  /\ cur' = [cur EXCEPT !.ended = t, !.offs = @ + 1,
                                        !.sw = sw,
                                        !.tones = completion_tones(sw)]
             ELSE /\ now' = rd[2]
                  /\ pc' = after_countdown(FALSE)
                  /\ led_current' = IF due THEN previous_led(led_current)
                                           ELSE led_current
                  /\ led_start' = segment_start(due, rd[2], led_start)
                  /\ cur' = IF due THEN [cur EXCEPT !.offs = @ + 1] ELSE cur
                  /\ UNCHANGED <<period, color, led_duration, ran>>
    /\ press' = NoPoll
    /\ UNCHANGED <<last_button_a, last_button_b, _work_duration,
                   _short_break, _long_break, schedule, start_led, stop_led,
                   idle_led, idle_time, led_state, pre_pause, pause_time,
                   flash, prev_true, at_pause>>

\* the poll of A, and on a press the entry of pause() up to its loop.  Its
\* reads of the clock: the guard of single_press_a, the new last_button_a,
\* pre_pause, pause_time.
IntervalPollA(rd, raw_a) ==
    /\ pc = "pollA"
    /\ UNCHANGED call
    /\ LET res == single_press(raw_a, last_button_a, rd[1])
       IN /\ raw_a \/ Unread(rd, 1)
          /\ res \/ (Unread(rd, 2) /\ Unread(rd, 3) /\ Unread(rd, 4))
          /\ now' = rd[4]
          /\ last_button_a' = stamp(raw_a, last_button_a, rd[1], rd[2])
          /\ press' = [NoPoll EXCEPT !.a = Polled(res),
                                     !.ta = IF raw_a THEN rd[1] ELSE NoRead]
          /\ prev_true' = IF res THEN [prev_true EXCEPT !.a = rd[2]]
                                 ELSE prev_true
          /\ IF res
             THEN /\ pre_pause' = rd[3]
                  /\ pause_time' = rd[4]
                  /\ led_state' = pixels
                  /\ pc' = "pause"
                  /\ handled' = handled \cup {"pause"}
                  /\ at_pause' = [rem |-> ticks(led_duration)
                                            - (rd[3] - led_start),
                                  cur |-> led_current, entered |-> rd[2],
                                  display |-> pixels, toggled |-> rd[4]]
             ELSE /\ pc' = "pollB"
                  /\ UNCHANGED <<pre_pause, pause_time, led_state, handled,
                                 at_pause>>
    /\ UNCHANGED <<pixels, last_button_b, _work_duration, _short_break,
                   _long_break, schedule, start_led, stop_led, idle_led,
                   idle_time, period, color, led_start, led_duration,
                   led_current, flash, ran, cur>>

\* the poll of B; channel B being accepted starts the cancel flash.  Its
\* reads of the clock: the guard of single_press_b, the new last_button_b.
IntervalPollB(rd, raw_b) ==
    /\ pc = "pollB"
    /\ UNCHANGED call
    /\ LET res == single_press(raw_b, last_button_b, rd[1])
       IN /\ raw_b \/ Unread(rd, 1)
          /\ res \/ Unread(rd, 2)
          /\ now' = rd[2]
          /\ last_button_b' = stamp(raw_b, last_button_b, rd[1], rd[2])
          /\ press' = [NoPoll EXCEPT !.b = Polled(res),
                                     !.tb = IF raw_b THEN rd[1] ELSE NoRead]
          /\ prev_true' = IF res THEN [prev_true EXCEPT !.b = rd[2]]
                                 ELSE prev_true
          /\ pc' = after_poll_b(res)
          /\ handled' = IF res THEN handled \cup {"cancel"} ELSE handled
    /\ flash' = 0
    /\ UNCHANGED <<pixels, last_button_a, _work_duration, _short_break,
                   _long_break, schedule, start_led, stop_led, idle_led,
                   idle_time, led_state, period, color, led_start,
                   led_duration, led_current, pre_pause, pause_time, ran,
                   at_pause, cur>>

\* a cancel flash of a single cycle
flash_over_after_one(n) == n = 1

\* for _ in range(2): whether n finished cycles end the cancel flash
flash_over(n) == n = flash_cycles

\* first half of a cancel cycle: all red, sleep(0.2)
FlashOn ==
    /\ pc = "flash_on"
    /\ UNCHANGED call
    /\ pixels' = AllPixels(Red)
    /\ now' = now + flash_on
    /\ pc' = "flash_off"
    /\ cur' = [cur EXCEPT !.reds = @ + 1]
    /\ press' = NoPoll
    /\ UNCHANGED <<last_button_a, last_button_b, _work_duration,
                   _short_break, _long_break, schedule, start_led, stop_led,
                   idle_led, idle_time, led_state, period, color, led_start,
                   led_duration, led_current, pre_pause, pause_time, flash,
                   prev_true, ran, handled, at_pause>>

\* second half: all off, sleep(0.1), and the return after the last cycle
FlashOff ==
    /\ pc = "flash_off"
    /\ UNCHANGED call
    /\ pixels' = AllPixels(Off)
    /\ now' = now + flash_off
    /\ IF flash_over(flash + 1)
       THEN /\ pc' = "session"
            /\ period' = period + 1
            /\ flash' = 0
            /\ color' = Off
            /\ led_start' = 0 /\ led_duration' = PyZero
                  /\ led_current' = 0
            /\ ran' = Finished("cancelled")
            /\ cur' = [cur EXCEPT !.ended = now + flash_off]
       ELSE /\ pc' = "flash_on"
            /\ flash' = flash + 1
            /\ UNCHANGED <<period, color, led_start, led_duration,
                           led_current, ran, cur>>
    /\ press' = NoPoll
    /\ UNCHANGED <<last_button_a, last_button_b, _work_duration,
                   _short_break, _long_break, schedule, start_led, stop_led,
                   idle_led, idle_time, led_state, pre_pause, pause_time,
                   prev_true, handled, at_pause>>

----------------------------------------------------------------------------
(* Pomodoro.pause and Pomodoro.blink *)

\* blink without its else branch
blink_dark(px, state) == AllPixels(Off)

\* blink: the display after one call
blink(px, state) == IF px = state THEN AllPixels(Off) ELSE state

\* pause() resumed by channel A alone
pause_over_a_only(ra, rb) == ra

\* the condition on which pause() returns
pause_over(ra, rb) == ra \/ rb

\* one iteration of pause()'s loop; on a press the return into interval(),
\* which moves led_start by the time the pause took.  Its reads of the
\* clock: the guard of the blink, the new pause_time, the guard of
\* single_press_a, the new last_button_a, the guard of single_press_b (polled
\* when A was not accepted), the new last_button_b, and interval()'s read
\* after pause() has returned.
PauseStep(rd, raw_a, raw_b) ==
    /\ pc = "pause"
    /\ UNCHANGED call
    /\ LET due == (rd[1] - pause_time) > blink_update
           ra == single_press(raw_a, last_button_a, rd[3])
           rb == single_press(raw_b, last_button_b, rd[5])
           out == pause_over(ra, rb)
           shown == IF out THEN led_state
                    ELSE IF due THEN blink(pixels, led_state)
                    ELSE pixels
       IN /\ due \/ Unread(rd, 2)
          /\ raw_a \/ Unread(rd, 3)
          /\ ra \/ Unread(rd, 4)
          /\ (~ra /\ raw_b) \/ Unread(rd, 5)
          /\ (~ra /\ rb) \/ Unread(rd, 6)
          /\ out \/ Unread(rd, 7)
          /\ now' = rd[7]
          /\ last_button_a' = stamp(raw_a, last_button_a, rd[3], rd[4])
          /\ last_button_b' = IF ra THEN last_button_b
                               ELSE stamp(raw_b, last_button_b, rd[5], rd[6])
          /\ press' = [a |-> Polled(ra),
                       b |-> IF ra THEN "none" ELSE Polled(rb),
                       ta |-> IF raw_a THEN rd[3] ELSE NoRead,
                       tb |-> IF ~ra /\ raw_b THEN rd[5] ELSE NoRead]
          /\ prev_true' = [a |-> IF ra THEN rd[4] ELSE prev_true.a,
                           b |-> IF ~ra /\ rb THEN rd[6] ELSE prev_true.b]
          /\ pixels' = shown
          /\ IF out
             THEN /\ pc' = "pollB"
                  /\ led_start' = resumed_start(led_start, rd[7], pre_pause)
                  /\ pre_pause' = 0
                  /\ pause_time' = 0
                  /\ cur' = [cur EXCEPT !.paused = @ + (rd[7] - pre_pause),
                                        !.woke = IF pixels = led_state
                                                 THEN "lit" ELSE "dark"]
                  /\ at_pause' = NoPause
             ELSE /\ pc' = "pause"
                  /\ pause_time' = IF due THEN rd[2] ELSE pause_time
                  /\ at_pause' = IF shown # pixels
                                 THEN [at_pause EXCEPT !.toggled = rd[1]]
                                 ELSE at_pause
                  /\ UNCHANGED <<led_start, pre_pause, cur>>
    /\ UNCHANGED <<_work_duration, _short_break, _long_break, schedule,
                   start_led, stop_led, idle_led, idle_time, led_state,
                   period, color, led_duration, led_current, flash, ran,
                   handled>>

----------------------------------------------------------------------------
(* The program with its inputs *)

Next ==
    \/ \E rd \in Reads("idle", 4, MaxTime), raw_a \in Raw : Idle(rd, raw_a)
    \/ \E t \in Later(now, MaxTime) : NextInterval(t)
    \/ SessionReturn
    \/ \E rd \in Reads("run", 2, MaxTime), sw \in BOOLEAN :
          IntervalCountdown(rd, sw)
    \/ \E rd \in Reads("pollA", 4, MaxTime), raw_a \in Raw :
          IntervalPollA(rd, raw_a)
    \/ \E rd \in Reads("pause", 7, MaxTime), raw_a \in Raw, raw_b \in Raw :
          PauseStep(rd, raw_a, raw_b)
    \/ \E rd \in Reads("pollB", 2, MaxTime), raw_b \in Raw :
          IntervalPollB(rd, raw_b)
    \/ FlashOn
    \/ FlashOff

Spec == Init /\ [][Next]_vars

----------------------------------------------------------------------------
(* The program when A is pressed early in the idle loop and no button reads
   true once the session has begun: an interval of ten seconds *)

InitQuiet ==
    \E usb \in UsbDownChoices, cfg \in QuietChoices :
        InitWith(usb, cfg.work, cfg.short, cfg.long, cfg.schedule)

NextQuiet ==
    \/ \E rd \in Reads("idle", 4, MaxQuietTime), raw_a \in Raw :
          (raw_a => rd[3] <= StartBy) /\ Idle(rd, raw_a)
    \/ \E t \in Later(now, MaxQuietTime) : NextInterval(t)
    \/ SessionReturn
    \/ \E rd \in Reads("run", 2, MaxQuietTime), sw \in BOOLEAN :
          IntervalCountdown(rd, sw)
    \/ \E rd \in Reads("pollA", 4, MaxQuietTime) : IntervalPollA(rd, FALSE)
    \/ \E rd \in Reads("pollB", 2, MaxQuietTime) : IntervalPollB(rd, FALSE)

SpecQuiet == InitQuiet /\ [][NextQuiet]_vars

----------------------------------------------------------------------------
(* The same, with a schedule of four intervals of the three kinds and the
   switch off *)

InitSchedule ==
    InitWith(TRUE, Seconds(1), Seconds(2), Seconds(3),
             <<"w", "sb", "w", "lb">>)

NextSchedule ==
    \/ \E rd \in Reads("idle", 4, MaxQuietTime), raw_a \in Raw :
          (raw_a => rd[3] <= StartBy) /\ Idle(rd, raw_a)
    \/ \E t \in Later(now, MaxQuietTime) : NextInterval(t)
    \/ SessionReturn
    \/ \E rd \in Reads("run", 2, MaxQuietTime) : IntervalCountdown(rd, FALSE)
    \/ \E rd \in Reads("pollA", 4, MaxQuietTime) : IntervalPollA(rd, FALSE)
    \/ \E rd \in Reads("pollB", 2, MaxQuietTime) : IntervalPollB(rd, FALSE)

SpecSchedule == InitSchedule /\ [][NextSchedule]_vars

----------------------------------------------------------------------------
(* The program followed to the end of a session: A is pressed early enough
   for the session to fit in the time modelled, no button reads true once
   the session has begun, the switch is off, the program keeps taking steps
   and the clock keeps advancing *)

InitLive ==
    \E cfg \in LiveChoices :
        InitWith(TRUE, cfg.work, cfg.short, cfg.long, cfg.schedule)

\* an iteration of interval's loop whose first read sees the clock one step
\* on
ClockAdvances ==
    /\ now + ClockStep <= MaxLiveTime
    /\ \E rd \in Reads("run", 2, MaxLiveTime) :
          rd[1] = now + ClockStep /\ IntervalCountdown(rd, FALSE)

NextLive ==
    \/ \E rd \in Reads("idle", 4, MaxLiveTime), raw_a \in Raw :
          (raw_a => rd[3] <= StartBy) /\ Idle(rd, raw_a)
    \/ \E t \in Later(now, MaxLiveTime) : NextInterval(t)
    \/ SessionReturn
    \/ \E rd \in Reads("run", 2, MaxLiveTime) : IntervalCountdown(rd, FALSE)
    \/ \E rd \in Reads("pollA", 4, MaxLiveTime) : IntervalPollA(rd, FALSE)
    \/ \E rd \in Reads("pollB", 2, MaxLiveTime) : IntervalPollB(rd, FALSE)

SpecLive ==
    /\ InitLive
    /\ [][NextLive]_vars
    /\ WF_vars(NextLive)
    /\ SF_vars(ClockAdvances)

----------------------------------------------------------------------------
(* The program when channel A is held down from the start *)

\* a schedule of one entry, so that a cancel ends the session with A down
InitHeld ==
    InitWith(TRUE, Seconds(1), Seconds(2), Seconds(3), <<"w">>)

NextHeld ==
    \/ \E rd \in Reads("idle", 4, MaxTime) : Idle(rd, TRUE)
    \/ \E t \in Later(now, MaxTime) : NextInterval(t)
    \/ SessionReturn
    \/ \E rd \in Reads("run", 2, MaxTime), sw \in BOOLEAN :
          IntervalCountdown(rd, sw)
    \/ \E rd \in Reads("pollA", 4, MaxTime) : IntervalPollA(rd, TRUE)
    \/ \E rd \in Reads("pause", 7, MaxTime), raw_b \in Raw :
          PauseStep(rd, TRUE, raw_b)
    \/ \E rd \in Reads("pollB", 2, MaxTime), raw_b \in Raw :
          IntervalPollB(rd, raw_b)
    \/ FlashOn
    \/ FlashOff

SpecHeld == InitHeld /\ [][NextHeld]_vars

----------------------------------------------------------------------------
(* The program with a schedule of a single interval, so that a session is
   over early and the idle loop is entered again *)

InitShort ==
    \E usb \in UsbDownChoices :
        InitWith(usb, Seconds(1), Seconds(2), Seconds(3), <<"w">>)

SpecShort == InitShort /\ [][Next]_vars

----------------------------------------------------------------------------
(* The program with a schedule of a single interval followed to its end:
   A is pressed early in the idle loop and early in the interval, a button
   is pressed inside pause() or B in the interval before long, no button
   reads true afterwards, and the switch is off *)

NextPaused ==
    \/ \E rd \in Reads("idle", 4, MaxPausedTime), raw_a \in Raw :
          (raw_a => rd[3] <= StartBy) /\ Idle(rd, raw_a)
    \/ \E t \in Later(now, MaxPausedTime) : NextInterval(t)
    \/ SessionReturn
    \/ \E rd \in Reads("run", 2, MaxPausedTime) : IntervalCountdown(rd, FALSE)
    \/ \E rd \in Reads("pollA", 4, MaxPausedTime), raw_a \in Raw :
          (raw_a => rd[1] <= PauseBy) /\ IntervalPollA(rd, raw_a)
    \/ \E rd \in Reads("pause", 7, MaxPausedTime), raw_a \in Raw,
          raw_b \in Raw :
          /\ raw_a => rd[3] <= ResumeBy
          /\ raw_b => rd[5] <= ResumeBy
          /\ PauseStep(rd, raw_a, raw_b)
    \/ \E rd \in Reads("pollB", 2, MaxPausedTime), raw_b \in Raw :
          (raw_b => rd[1] <= ResumeBy) /\ IntervalPollB(rd, raw_b)
    \/ FlashOn
    \/ FlashOff

SpecPaused == InitShort /\ [][NextPaused]_vars

----------------------------------------------------------------------------
(* Properties *)

LastRan == ran[Len(ran)]

\* what the configuration gives each kind of interval
Configured(kind) ==
    CASE kind = "w"  -> [duration |-> _work_duration, color |-> <<0, 0, 5>>]
      [] kind = "sb" -> [duration |-> _short_break,   color |-> <<0, 5, 0>>]
      [] kind = "lb" -> [duration |-> _long_break,    color |-> <<4, 1, 3>>]

\* C1 as claimed: once an interval of a session has been cancelled, no
\* further entry of the schedule is started, so a cancelled interval is
\* always the last one the session ran.
C1_CancelEndsSession ==
    \A k \in 1 .. Len(ran) : ran[k].result = "cancelled" => k = Len(ran)

\* C2: when pause() returns, the time left in the current light segment,
\* led_duration - (now - led_start), is what it was when the pause was
\* entered, whatever the length of the pause, and led_current is unchanged.
\* The two moments are the two reads of the clock interval() makes round its
\* call of pause(): the one kept in pre_pause and the one after the return.
C2_PauseKeepsRemaining ==
    [][(pc = "pause" /\ pc' = "pollB")
        => /\ ticks(led_duration') - (now' - led_start') = at_pause.rem
           /\ led_current' = at_pause.cur
           /\ led_duration' = led_duration]_vars

\* a pause of more than one blink has just ended in the middle of a segment
C2_Witness ==
    /\ pc = "pollB"
    /\ "pause" \in handled
    /\ cur.paused > blink_update
    /\ ticks(led_duration) - (now - led_start) > 0
    /\ ticks(led_duration) - (now - led_start) < ticks(led_duration)

\* C3 as claimed: one iteration of interval's loop handles at most one of
\* the light-off progression, the entry of a pause and a cancel.
C3_AtMostOneHandled == Cardinality(handled) <= 1

\* C3 amended: the light-off that completes the interval is the only thing
\* its iteration handles, and once a cancel is accepted the loop makes no
\* further countdown step, poll or pause: only the flash and the return
\* follow.  (A light-off that does not complete the interval may share its
\* iteration with a pause and with a cancel.)
C3_CompletionAloneCancelAtOnce ==
    /\ (ran # <<>> /\ LastRan.result = "completed")
          => (handled = {"tick"} /\ pc \in {"session", "idle"})
    /\ "cancel" \in handled
          => pc \in {"flash_on", "flash_off", "session", "idle"}
    /\ handled \subseteq {"tick", "pause", "cancel"}

\* one iteration turned a light off, went through a pause and was cancelled
C3_Witness == handled = {"tick", "pause", "cancel"} /\ pc = "flash_on"

\* C4: the k-th interval a session invokes is the k-th entry of the
\* schedule, run with the duration and colour configured for its kind; with
\* no cancel the intervals complete one after the other, and the session is
\* back in the idle loop after exactly Len(schedule) of them.
C4_ScheduleOrder ==
    /\ Len(ran) <= Len(schedule)
    /\ \A k \in 1 .. Len(ran) :
          /\ ran[k].kind = schedule[k]
          /\ ran[k].duration = Configured(schedule[k]).duration
          /\ ran[k].color = Configured(schedule[k]).color
          /\ k < Len(ran) => ran[k].result = "completed"
    /\ pc \in {"run", "pollA", "pollB"}
          => /\ Len(ran) = period
             /\ LastRan.result = "running"
             /\ led_duration
                  = over(Configured(schedule[period]).duration, 10)
             /\ color = Configured(schedule[period]).color
             /\ \A i \in Ring : pixels[i] \in {color, Off}
    /\ pc = "session"
          => /\ Len(ran) = period - 1
             /\ ran # <<>> => LastRan.result = "completed"
    /\ (pc = "idle" /\ ran # <<>>)
          => (Len(ran) = Len(schedule) /\ LastRan.result = "completed")

\* a session of four intervals of three kinds has run to its end
C4_Witness ==
    /\ pc = "idle"
    /\ Len(ran) = 4
    /\ {ran[k].kind : k \in 1 .. Len(ran)} = {"w", "sb", "lb"}

\* C5: on each channel, a poll that returns true compares with the window a
\* time that is more than the sensitivity window after the time recorded by
\* the previous poll of that channel that returned true, wherever the two
\* polls were made: the whole of the later poll comes more than 0.25 s after
\* the whole of the earlier one.
C5_OncePerWindow ==
    [][/\ press'.a = "true"
            => (prev_true.a = -1 \/ press'.ta - prev_true.a > sensitivity)
       /\ press'.b = "true"
            => (prev_true.b = -1
                  \/ press'.tb - prev_true.b > sensitivity)]_vars

\* B is accepted for the second time (after a cancel of the first interval),
\* as the resume of a pause entered by A's second accepted press (after the
\* one that began the session)
C5_Witness ==
    /\ pc = "pollB"
    /\ "pause" \in handled
    /\ press.b = "true"
    /\ Len(ran) >= 2
    /\ ran[1].result = "cancelled"
    /\ prev_true.a > 0

\* C6: with channel A held down, a poll of single_press_a made t after the
\* last poll that returned true returns false while t <= 0.25 s and true as
\* soon as t > 0.25 s, and the poll that returns true is the new t = 0.  The
\* time of a true result is the time it records in last_button_a, which it
\* reads after the comparison: no earlier than the time compared, no later
\* than the end of the step.
C6_HeldButton ==
    [][(press'.a # "none" /\ prev_true.a # -1)
        => /\ last_button_a = prev_true.a
           /\ press'.ta # NoRead
           /\ press'.a = "true" <=> press'.ta - prev_true.a > sensitivity
           /\ press'.a = "true"
                => /\ prev_true'.a = last_button_a'
                   /\ press'.ta <= last_button_a'
                   /\ last_button_a' <= now'
           /\ press'.a = "false" => prev_true'.a = prev_true.a]_vars

\* the press that entered a pause (true again, after the one that began the
\* session) is polled exactly 0.25 s after the time it recorded and refused
C6_Witness ==
    /\ pc = "pause"
    /\ press.a = "false"
    /\ prev_true.a = at_pause.entered
    /\ press.ta - prev_true.a = sensitivity

\* C7: an interval of 10 s on which no button is pressed completes, and only
\* after more than 10 s have passed since it began; when it returns the
\* light at stop_led (with the nine before it) is off, and the 1720 Hz tone
\* has been played exactly if the switch read true at that moment.
C7_TenSeconds ==
    (pc = "session" /\ ran # <<>> /\ LastRan.result = "completed"
       /\ ticks(LastRan.duration) = 10 * 60)
      => /\ cur.ended - cur.begun > 10 * 60
         /\ cur.offs = n_pixels
         /\ pixels[stop_led] = Off
         /\ pixels = AllPixels(Off)
         /\ cur.sw \in BOOLEAN
         /\ cur.sw = TRUE => cur.tones = << <<1720, 6>> >>
         /\ cur.sw = FALSE => cur.tones = <<>>

\* a 10 s interval has completed with the switch set
C7_Witness ==
    /\ pc = "session"
    /\ ran # <<>>
    /\ LastRan.result = "completed"
    /\ ticks(LastRan.duration) = 10 * 60
    /\ cur.sw = TRUE
    /\ cur.tones # <<>>

\* C8: when the poll of B accepts a press the light at stop_led is still
\* lit; the interval then returns as cancelled with fewer than ten lights
\* turned off by the countdown, without reading the switch or playing a
\* tone, after exactly two cycles of all red (0.2 s) and all off (0.1 s),
\* and it leaves the ten pixels off.
C8_Cancel ==
    /\ (pc = "flash_on" /\ cur.reds = 0)
          => (pixels[stop_led] = color /\ color # Off /\ prev_true.b = now)
    /\ pc = "flash_off" => pixels = AllPixels(Red)
    /\ (pc = "flash_on" /\ cur.reds > 0) => pixels = AllPixels(Off)
    /\ pc \in {"flash_on", "flash_off"}
          => (cur.reds <= 2 /\ cur.tones = <<>> /\ cur.offs < n_pixels)
    /\ (pc = "session" /\ ran # <<>> /\ LastRan.result = "cancelled")
          => /\ cur.offs < n_pixels
             /\ cur.tones = <<>>
             /\ cur.sw = "unread"
             /\ cur.reds = 2
             /\ cur.ended - prev_true.b = 2 * (12 + 6)
             /\ pixels = AllPixels(Off)

\* an interval that had already turned lights off has returned as cancelled
C8_Witness ==
    /\ pc = "session"
    /\ ran # <<>>
    /\ LastRan.result = "cancelled"
    /\ cur.offs > 0

\* C9: while pause() runs, the display is the snapshot taken on entry or all
\* off, and led_state is that snapshot; an iteration that does not end the
\* pause toggles the display only when the clock it compared read more than
\* 0.3 s after pause_time, the time read after the last toggle (or on
\* entry), and does toggle it when the iteration began more than 0.3 s after
\* pause_time; the iteration that ends the pause leaves the display equal to
\* the snapshot.
C9_Blink ==
    [][/\ pc' = "pause"
            => /\ pixels' \in {at_pause'.display, AllPixels(Off)}
               /\ led_state' = at_pause'.display
       /\ (pc = "pause" /\ pc' = "pause")
            => /\ pixels' # pixels
                    => /\ at_pause'.toggled - pause_time > 18
                       /\ pause_time' >= at_pause'.toggled
                       /\ pause_time' <= now'
               /\ pixels' = pixels
                    => (now - pause_time <= 18 /\ pause_time' = pause_time)
               /\ at_pause'.display = at_pause.display
       /\ (pc = "pause" /\ pc' # "pause")
            => pixels' = at_pause.display]_vars

\* a pause has ended while the display was in its dark phase
C9_Witness ==
    /\ pc = "pollB"
    /\ "pause" \in handled
    /\ cur.woke = "dark"
    /\ pixels = led_state
    /\ pixels # AllPixels(Off)

\* C10: an iteration of pause()'s loop returns exactly when its poll of A or
\* of B accepts a press; one that does not return turns no countdown light
\* off and leaves led_current, led_start and the interval's result alone.
C10_PauseEndsOnPress ==
    [][pc = "pause"
        => /\ pc' \in {"pause", "pollB"}
           /\ pc' = "pollB" <=> (press'.a = "true" \/ press'.b = "true")
           /\ press'.a # "none"
           /\ led_current' = led_current
           /\ cur'.offs = cur.offs
           /\ ran' = ran
           /\ pc' = "pause" => led_start' = led_start]_vars

\* a pause has just been ended by a press of B
C10_Witness ==
    /\ pc = "pollB"
    /\ "pause" \in handled
    /\ press.a = "false"
    /\ press.b = "true"

\* C11: the top-level loop is either idle or inside a session.  An iteration
\* of the idle loop polls channel A and nothing else (channel B is not read
\* and its timestamp stays), and enters a session exactly when that poll
\* returns true; inside a session no new session begins; the idle loop is
\* entered again only by work_session returning, after every entry of the
\* schedule has been run to its end (completed or cancelled).
C11_IdleAndSession ==
    [][/\ pc = "idle"
            => /\ pc' \in {"idle", "session"}
               /\ press'.a # "none"
               /\ press'.b = "none"
               /\ last_button_b' = last_button_b
               /\ prev_true'.b = prev_true.b
               /\ pc' = "session" <=> press'.a = "true"
               /\ pc' = "session" => (period' = 1 /\ ran' = <<>>)
       /\ (pc # "idle" /\ pc' = "idle")
            => /\ pc = "session"
               /\ period > Len(schedule)
               /\ Len(ran) = Len(schedule)
               /\ \A k \in 1 .. Len(ran) :
                     ran[k].result \in {"completed", "cancelled"}
       /\ (pc # "idle" /\ pc' # "idle")
            => (period' >= period /\ Len(ran') >= Len(ran))]_vars

\* a second session has just been started by a press of A, after the first
\* one returned to the idle loop
C11_Witness ==
    /\ pc = "session"
    /\ period = 1
    /\ ran = <<>>
    /\ press.a = "true"
    /\ cur.ended > 0

\* of three values, one for each property, the one that op is about
Of(op, w, sb, lb) ==
    CASE op \in {"set_work", "get_work"}   -> w
      [] op \in {"set_short", "get_short"} -> sb
      [] op \in {"set_long", "get_long"}   -> lb

SetOps == {"set_work", "set_short", "set_long"}
GetOps == {"get_work", "get_short", "get_long"}

NonPositive(d) == d.sign <= 0

\* C12: a duration setter given d <= 0 (zero and negatives, int or float)
\* raises ValueError and leaves the three stored durations and the schedule
\* as they were; given d > 0 it succeeds, stores d * 60 in its own field
\* (exactly 60 d for an int) and leaves the other two and the schedule alone.
C12_SettersRejectNonPositive ==
    [][call'.op \in SetOps /\ call' # call
        => /\ schedule' = schedule
           /\ NonPositive(call'.arg)
                => /\ call'.result = "ValueError"
                   /\ _work_duration' = _work_duration
                   /\ _short_break' = _short_break
                   /\ _long_break' = _long_break
                   /\ call'.given = call.given
           /\ ~NonPositive(call'.arg)
                => /\ call'.result = "ok"
                   /\ call'.arg.t = "int"
                         => LET st == Of(call'.op, _work_duration',
                                         _short_break', _long_break')
                                dm == mag_divmod(zeros(st.low
                                                        - call'.arg.low)
                                                    \o st.mag, 60)
                            IN /\ st.t = "int" /\ st.sign = 1
                               /\ dm.r = 0
                               /\ trimmed(dm.q) = call'.arg.mag
                   /\ call'.arg.t = "float"
                         => Of(call'.op, _work_duration', _short_break',
                               _long_break') = float_times_60(call'.arg)
                   /\ \A op \in SetOps \ {call'.op} :
                         Of(op, _work_duration', _short_break', _long_break')
                           = Of(op, _work_duration, _short_break, _long_break)
                   /\ Of(call'.op, call'.given.w, call'.given.sb,
                         call'.given.lb) = call'.arg]_vars

\* short_break has been set to 0.03 and a later short_break = 0 was refused
C12_Witness ==
    /\ call.op = "set_short"
    /\ call.arg = PyInt(0)
    /\ call.result = "ValueError"
    /\ call.given.sb = PyFloat(1, 64424509, 59055800, -58)
    /\ _short_break = PyFloat(1, 60397977, 80530636, -52)

\* the value last given to the property that the call is about
Given == Of(call.op, call.given.w, call.given.sb, call.given.lb)

\* x == y in Python, for x what a getter gave and y an int or a float > 0:
\* x is a float and has the value of y
PyEquals(x, y) ==
    /\ x.t = "float"
    /\ IF y.t = "float" THEN x = y
       ELSE LET l == leading(y.mag, 24 * y.low, FALSE)
            IN l.rest = "none" /\ x = PyFloat(1, l.hi, l.lo, l.e)

\* float(d) of an int d > 0: the float nearest to d, or the error
Nearest(d) ==
    LET l == leading(d.mag, 24 * d.low, FALSE)
        f == rounded(l.hi, l.lo, l.e, l.rest)
    IN IF f = PyInf THEN OverflowError ELSE f

\* C13 as claimed: reading a duration property returns the value d > 0
\* last set to it, for every d.
C13_RoundTripExact == call.op \in GetOps => PyEquals(call.result, Given)

\* the value stored for the property that the call is about
Stored == Of(call.op, _work_duration, _short_break, _long_break)

\* C13 amended: reading a duration property gives a float.  When the value
\* d > 0 last set is an int, it is the float nearest to d: equal to d when
\* d is a float's value (every d up to 2^53), another number when it is
\* not, and an OverflowError instead when d lies beyond the floats.  When d
\* is a float the result is d or one of the two floats next to d, the
\* product d * 60 and the quotient / 60 being rounded each, unless the
\* product overflows: the setter then stores inf and the property reads
\* inf.
C13_RoundTripClose ==
    call.op \in GetOps
      => /\ Given.t = "int"
               => /\ call.result = Nearest(Given)
                  /\ LET l == leading(Given.mag, 24 * Given.low, FALSE)
                     IN /\ l.e <= 0 => PyEquals(call.result, Given)
                        /\ l.rest # "none" => ~PyEquals(call.result, Given)
                        /\ l.e > MaxExp => call.result = OverflowError
         /\ Given.t = "float"
               => /\ call.result.t = "float"
                  /\ Stored # PyInf => Close(call.result, Given)
                  /\ Stored = PyInf => call.result = PyInf

\* long_break was set to 0.03 and reads back as the float just below it
C13_Witness ==
    /\ call.op = "get_long"
    /\ call.given.lb = PyFloat(1, 64424509, 59055800, -58)
    /\ call.result = PyFloat(1, 64424509, 59055799, -58)

\* C14: a poll of a channel that returns false leaves the channel's
\* timestamp as it was, a poll that returns true sets it to the time it
\* reads for the assignment (no earlier than the time it compared with the
\* window, no later than the end of the step), and a step that does not poll
\* a channel (it polls the other one, or none) leaves that channel's
\* timestamp as it was.
C14_TimestampFrame ==
    [][/\ press'.a = "true"
            => /\ last_button_a' = prev_true'.a
               /\ press'.ta <= last_button_a'
               /\ last_button_a' <= now'
       /\ press'.a \in {"false", "none"} => last_button_a' = last_button_a
       /\ press'.b = "true"
            => /\ last_button_b' = prev_true'.b
               /\ press'.tb <= last_button_b'
               /\ last_button_b' <= now'
       /\ press'.b \in {"false", "none"}
            => last_button_b' = last_button_b]_vars

\* one iteration of pause() polled A with the button up, long after A's
\* window had passed, and then accepted B: A's timestamp is the old one, B's
\* is the time read for it, a clock step after the time compared
C14_Witness ==
    /\ pc = "pollB"
    /\ "pause" \in handled
    /\ press.a = "false"
    /\ press.ta = NoRead
    /\ now - last_button_a > sensitivity
    /\ last_button_a = prev_true.a
    /\ press.b = "true"
    /\ last_button_b = prev_true.b
    /\ last_button_b > press.tb

\* the ring positions from led down to stop_led, counting down modulo 10
Arc(led) == {(led - j) % n_pixels : j \in 0 .. ((led - stop_led) % n_pixels)}

\* the countdown display: the arc from led_current in the interval's colour,
\* every other light off
ArcShown ==
    \A i \in Ring : pixels[i] = IF i \in Arc(led_current) THEN color ELSE Off

\* C15: whenever the interval runner is in its loop, outside pause() and the
\* cancel flash, the lights lit are exactly those from led_current down to
\* stop_led modulo 10, in the interval's colour, and the others are off; the
\* k-th light the countdown turns off is at (start_led - (k - 1)) mod 10 and
\* was lit until then; an interval that completes has turned off exactly ten
\* lights, the last of them at stop_led, in either orientation.
C15_CountdownArc ==
    [][/\ pc' \in {"run", "pollA", "pollB"} => ArcShown'
       /\ (pc = "session" /\ pc' = "run")
            => (led_current' = start_led /\ pixels' = AllPixels(color')
                  /\ color' # Off /\ cur'.offs = 0)
       /\ (pc = "run" /\ cur'.offs # cur.offs)
            => /\ cur'.offs = cur.offs + 1
               /\ led_current = (start_led - cur.offs) % n_pixels
               /\ pixels[led_current] = color
               /\ pixels' = [pixels EXCEPT ![led_current] = Off]
       /\ (pc = "run" /\ cur'.offs = cur.offs) => pixels' = pixels
       /\ (pc = "run" /\ pc' = "session")
            => /\ cur'.offs = n_pixels
               /\ led_current = stop_led
               /\ pixels' = AllPixels(Off)
       /\ (pc \in {"pollA", "pollB"} /\ pc' \in {"pollB", "run"})
            => (pixels' = pixels /\ led_current' = led_current)
       /\ start_led \in {4, 9} /\ stop_led = (start_led + 1) % n_pixels]_vars

\* with the board the other way up (start 9, stop 0) an interval that was
\* paused on the way has completed
C15_Witness ==
    /\ pc = "session"
    /\ start_led = 9
    /\ stop_led = 0
    /\ ran # <<>>
    /\ LastRan.result = "completed"
    /\ cur.offs = n_pixels
    /\ cur.woke # "none"

\* the time the current interval has run outside pause()
Unpaused(t) == t - cur.begun - cur.paused

\* C16: an interval never completes early.  When the runner returns by
\* completion, the time since the interval began less the time spent inside
\* pause() is more than the interval's duration; and all along, once the
\* countdown has turned k lights off, the light segment under way began
\* when more than k tenths of the duration had passed outside pause().
C16_NeverEarly ==
    /\ (pc = "session" /\ ran # <<>> /\ LastRan.result = "completed")
          => /\ cur.offs = n_pixels
             /\ Unpaused(cur.ended) > ticks(LastRan.duration)
    /\ (pc \in {"run", "pollA", "pollB"} /\ cur.offs > 0)
          => /\ Unpaused(led_start) > cur.offs * ticks(led_duration)
             /\ led_start <= now
             /\ ticks(led_duration) * n_pixels = ticks(LastRan.duration)
             /\ led_duration = over(LastRan.duration, n_pixels)

\* an interval has completed after a pause that took time
C16_Witness ==
    /\ pc = "session"
    /\ ran # <<>>
    /\ LastRan.result = "completed"
    /\ cur.paused > 0
    /\ cur.ended - cur.begun > ticks(LastRan.duration) + cur.paused

\* the lights that are not off
Lit == {i \in Ring : pixels[i] # Off}

\* C17: in the idle loop at most one light is lit, the one at idle_led, in
\* the idle colour (the runs begin with the display dark); whenever an
\* interval has returned, by completion or by cancel, and so whenever a
\* session ends, the ten lights are off; and an idle animation step that is
\* due turns the light at idle_led off, moves idle_led back by one modulo 10
\* and lights the new position, a step that is not due changes nothing.
C17_IdleOneLight ==
    [][/\ pc' = "idle"
            => /\ Lit' \subseteq {idle_led'}
               /\ \A i \in Lit' : pixels'[i] = IdleColor
       /\ pc' = "session" /\ pc # "idle" => Lit' = {}
       /\ (pc # "idle" /\ pc' = "idle") => Lit' = {}
       /\ (pc = "idle" /\ idle_time' # idle_time)
            => /\ now' - idle_time > idle_update
               /\ idle_led' = (idle_led - 1) % n_pixels
               /\ pc' = "idle" => Lit' = {idle_led'}
               /\ \A i \in Ring \ {idle_led'} :
                     pixels'[i] = IF i = idle_led THEN Off ELSE pixels[i]
               /\ pixels'[idle_led'] = IdleColor
       /\ (pc = "idle" /\ idle_time' = idle_time)
            => (idle_led' = idle_led /\ pixels' = pixels)]_vars

\* a session ended by a cancel of its last interval is over, and the idle
\* animation is running again
C17_Witness ==
    /\ pc = "idle"
    /\ ran # <<>>
    /\ LastRan.result = "cancelled"
    /\ Len(ran) = Len(schedule)
    /\ idle_time >= cur.ended
    /\ Lit = {idle_led}

\* C18: a press of B that ends a pause does not cancel the interval.  A
\* cancel poll that compares a time within 0.25 s of the time B was last
\* accepted, in pause() or anywhere else, returns false and the loop goes
\* on; the cancel flash is entered only when more than 0.25 s have passed
\* since then.  In the same way, channel A is accepted as a pause entry or
\* as a resume only when more than 0.25 s have passed since it was last
\* accepted (as session start, pause entry or resume).
C18_PressConsumed ==
    [][/\ (pc = "pollB" /\ press'.tb # NoRead /\ prev_true.b # -1
             /\ press'.tb - prev_true.b <= sensitivity)
            => (press'.b = "false" /\ pc' = "run"
                  /\ last_button_b' = last_button_b)
       /\ (pc = "pollB" /\ pc' = "flash_on")
            => (press'.b = "true" /\ press'.tb - prev_true.b > sensitivity)
       /\ (pc = "pollA" /\ pc' = "pause")
            => (press'.a = "true" /\ press'.ta - prev_true.a > sensitivity)
       /\ (pc = "pause" /\ press'.a = "true")
            => (press'.ta - prev_true.a > sensitivity
                  /\ press'.ta - at_pause.entered > sensitivity)
       /\ (pc = "pause" /\ press'.b = "true")
            => (prev_true.b = -1
                  \/ press'.tb - prev_true.b > sensitivity)]_vars

\* B ended a pause and the cancel poll of the same iteration found it down
\* and refused it: the runner is back at the top of its loop
C18_Witness ==
    /\ pc = "run"
    /\ "pause" \in handled
    /\ "cancel" \notin handled
    /\ press.b = "false"
    /\ press.tb # NoRead
    /\ prev_true.b > prev_true.a
    /\ last_button_b = prev_true.b

\* every entry of the schedule has been run and has completed
AllCompleted ==
    /\ Len(ran) = Len(schedule)
    /\ \A k \in 1 .. Len(ran) :
          ran[k].kind = schedule[k] /\ ran[k].result = "completed"

\* C19 as claimed: when the clock keeps advancing and no button reads
\* true at a poll made after a session has begun, the session that has
\* begun leads to the idle loop again, with every entry of the schedule run
\* and completed, for every schedule and all positive durations.
C19_SessionReturns == (pc # "idle") ~> (pc = "idle" /\ AllCompleted)

\* every duration that the schedule uses is stored as a number of seconds
\* whose tenth is a finite float
Timed ==
    \A k \in 1 .. Len(schedule) :
        LET tenth == over(Configured(schedule[k]).duration, n_pixels)
        IN tenth # PyInf /\ tenth # OverflowError

InLoop == pc \in {"run", "pollA", "pollB"}

\* C19 amended: when the clock keeps advancing and no button reads true at
\* a poll made after a session has begun, then for every schedule whose
\* durations are stored as seconds with a finite tenth the session that
\* has begun leads to the idle loop again, with every entry of the schedule
\* run and completed.  An interval whose stored duration is inf stays in
\* its loop, turns no light off and never returns; at an interval whose
\* stored duration is an int with a tenth beyond the floats the program
\* ends with the display filled, and never reaches the idle loop again.
C19_TimedSessionReturns ==
    /\ (pc # "idle" /\ Timed) ~> (pc = "idle" /\ AllCompleted)
    /\ [][/\ (InLoop /\ led_duration = PyInf)
               => /\ InLoop'
                  /\ led_duration' = PyInf
                  /\ pixels' = AllPixels(color)
                  /\ cur'.offs = 0
                  /\ LastRan'.result = "running"
          /\ (pc = "session" /\ period <= Len(schedule)
                /\ Configured(schedule[period]).duration = PyInf)
               => (pc' = "run" /\ led_duration' = PyInf)
          /\ (pc = "session" /\ period <= Len(schedule)
                /\ over(Configured(schedule[period]).duration, n_pixels)
                     = OverflowError)
               => (pc' = "raised" /\ pixels' = AllPixels(color'))
          /\ pc = "raised" => pc' = "raised"]_vars

\* the three intervals of the schedule, one of each kind, have completed and
\* the idle loop runs again
C19_Witness ==
    /\ pc = "idle"
    /\ Len(schedule) = 3
    /\ AllCompleted
    /\ press.a = "false"

====
